---- MODULE Spec2Model ----
(***************************************************************************)
(* Model of main.py of ZapCodeAutoActivator: the coupon loader, the        *)
(* interactive login and cookie capture, the bounded-retry activation of   *)
(* one coupon, the per-account loop and the outer multi-account loop.      *)
(* The program is single-threaded; pc is the position of its one thread.   *)
(* Strings the code inspects (file lines, the y/n answer) are sequences of *)
(* one-character strings.                                                  *)
(***************************************************************************)
EXTENDS Integers, Sequences, FiniteSets, TLC

\* ---------------------------------------------------------------- bounds
MaxLines == 3
MaxPasses == 2

\* ------------------------------------------------------ program constants
RATE_LIMIT_SECONDS == 30
MaxAttempts == 3
HTTP_OK == 200

\* ------------------------------------------------------------ input sets
Whitespace == {" ", "\t", "\n"}

\* lines as the file iterator yields them (terminator included)
Lines ==
  { <<"\n">>,
    <<" ", "\n">>,
    <<"A", "\n">>,
    <<" ", "B", " ", "\n">> }

FilesUpTo(n) == UNION { [1..k -> Lines] : k \in 0..n }

\* open() raises FileNotFoundError on NoFile; read counts the lines the
\* file iterator has yielded
NoFile == [exists |-> FALSE, lines |-> <<>>, read |-> 0]

Files ==
  { [exists |-> TRUE, lines |-> ls, read |-> 0] : ls \in FilesUpTo(MaxLines) }
    \cup {NoFile}

\* a wider choice of lines for load_coupons alone: tabs, inner whitespace,
\* a last line without terminator
LoadLines ==
  Lines \cup { <<"\t", "\n">>, <<"A", " ", "B", "\n">>, <<"\t", "B">> }

LoadFiles ==
  { [exists |-> TRUE, lines |-> ls, read |-> 0] :
      ls \in UNION { [1..k -> LoadLines] : k \in 0..MaxLines } }
    \cup {NoFile}

\* what driver.get_cookies() can return: a list of cookie records
CookieLists ==
  { <<>>,
    << [name |-> "zap_session", value |-> "s1"] >>,
    << [name |-> "PHPSESSID", value |-> "p1"] >>,
    << [name |-> "zap_session", value |-> "s1"],
       [name |-> "zap_session", value |-> "s2"] >> }

\* driver.get_cookies() returns a list or raises NoSuchWindowException
NoSuchWindow == [raised |-> TRUE, list |-> <<>>]

Captures == { [raised |-> FALSE, list |-> cs] : cs \in CookieLists }
              \cup {NoSuchWindow}

\* session.post raises requests.RequestException
RequestException == [raised |-> TRUE, status |-> 0, marker |-> FALSE]

\* what session.post can produce: a response (status, marker in body) or a
\* transport-level exception
Responses ==
  { [raised |-> FALSE, status |-> st, marker |-> m] :
      st \in {200, 500}, m \in BOOLEAN }

PostOutcomes == Responses \cup {RequestException}

\* what the user can type at the y/n prompt
Answers ==
  { <<"y">>, <<"Y">>, <<" ", "y", "\n">>, <<"n">>, <<>>, <<"y", "e", "s">> }

\* ------------------------------------------------------- pure functions
RECURSIVE lstrip(_)
lstrip(s) ==
  IF s # <<>> /\ Head(s) \in Whitespace THEN lstrip(Tail(s)) ELSE s

RECURSIVE rstrip(_)
rstrip(s) ==
  IF s # <<>> /\ s[Len(s)] \in Whitespace
    THEN rstrip(SubSeq(s, 1, Len(s) - 1))
    ELSE s

\* only trailing whitespace removed
strip_trailing(s) == rstrip(s)

\* str.strip()
strip(s) == rstrip(lstrip(s))

lowerChar(c) ==
  CASE c = "Y" -> "y"
    [] c = "N" -> "n"
    [] c = "E" -> "e"
    [] c = "S" -> "s"
    [] OTHER -> c

lower(s) == [i \in DOMAIN s |-> lowerChar(s[i])]

RECURSIVE comprehension(_)
\* [line.strip() for line in file if line.strip()]
comprehension(lines) ==
  IF lines = <<>> THEN <<>>
  ELSE IF strip(Head(lines)) # <<>>
    THEN <<strip(Head(lines))>> \o comprehension(Tail(lines))
    ELSE comprehension(Tail(lines))

load_coupons(f) ==
  IF f.exists THEN comprehension(f.lines) ELSE <<>>

\* {cookie['name']: cookie['value'] for cookie in cookies}: a later cookie
\* of the same name overrides an earlier one
LastIndexOf(cs, n) ==
  CHOOSE i \in DOMAIN cs :
    /\ cs[i].name = n
    /\ \A j \in DOMAIN cs : cs[j].name = n => j <= i

session_cookies(cs) ==
  [n \in {cs[i].name : i \in DOMAIN cs} |-> cs[LastIndexOf(cs, n)].value]

EmptyDict == <<>>

get_cookies_from_driver(got) ==
  IF got.raised THEN EmptyDict ELSE session_cookies(got.list)

\* Python truthiness of a dict and of a list
truthy(c) == DOMAIN c # {}

\* cookies.get("zap_session", "UnknownSession")
get_zap_session(c) ==
  IF "zap_session" \in DOMAIN c THEN c["zap_session"] ELSE "UnknownSession"

\* ------------------------------------------------------------------ state
VARIABLES
  pc,            \* position of the program
  file,          \* coupons.txt as open() finds it: the lines not yet read
  coupons,       \* main: the loaded coupon list
  cookies,       \* main: the mapping captured for the current account
  browsers,      \* number of browser sessions currently open
  passes,        \* number of browser sessions opened so far in this run
  repeat,        \* main: the normalised answer to the y/n prompt
  capturePass,   \* pass whose login produced the value of cookies (0: none)
  zap_session,   \* process_account: account tag
  idx,           \* process_account: 1-based loop index
  attempt,       \* activate_coupon: attempt counter
  success,       \* activate_coupon: success flag
  outcomes,      \* what session.post produced, per attempt of this call
  jar,           \* activate_coupon: cookie jar of the current session object
  sent,          \* form code and cookies of the latest POST of this call
  retrySleeps,   \* sleeps executed at line 111 during this call
  interSleeps,   \* sleeps executed at line 129 during this pass
  passPosts,     \* POST requests sent per coupon index during this pass
  passFailed,    \* FAILED records logged per coupon index during this pass
  sinceLastPost, \* seconds slept since the latest POST of the run
  lastGap,       \* seconds slept between the two latest POSTs of the run
  lastPostPass,  \* pass that sent the latest POST (0: no POST yet)
  prevPostPass,  \* pass that sent the POST before the latest (0: none)
  log,           \* records appended to the log file, and
  console        \* lines printed to the console, since the program last
                 \* opened a browser or entered or left process_account or
                 \* activate_coupon

vars ==
  << pc, file, coupons, cookies, browsers, passes, repeat, capturePass,
     zap_session, idx, attempt, success, outcomes, jar, sent, retrySleeps,
     interSleeps, passPosts,
     passFailed,
     sinceLastPost, lastGap, lastPostPass, prevPostPass, log, console >>

mainLocals == << coupons, cookies, repeat, capturePass >>
accountLocals == << zap_session, idx, interSleeps, passPosts, passFailed >>
callLocals == << attempt, success, outcomes, jar, sent, retrySleeps >>
gapVars == << sinceLastPost, lastGap, lastPostPass, prevPostPass >>
outputs == << log, console >>

Rec(tag, event, coupon) == [tag |-> tag, event |-> event, coupon |-> coupon]

NoCoupon == <<>>

\* no request sent yet in this call
NoRequest == [code |-> NoCoupon, cookies |-> EmptyDict]

\* cookies a response sets on the session that received it (the session
\* object merges every Set-Cookie header into its jar)
response_cookies(r) ==
  IF r.raised THEN EmptyDict ELSE [n \in {"srv"} |-> "x"]

\* dict.update / RequestsCookieJar.update
update(a, b) ==
  [n \in DOMAIN a \cup DOMAIN b |-> IF n \in DOMAIN b THEN b[n] ELSE a[n]]

\* what start_browser_and_login can do: return the driver, or let an
\* exception of webdriver.Chrome (no browser yet) or of driver.get (browser
\* already open) propagate out of main
Launches == {"ok", "chrome_raises", "get_raises"}

InitWith(files) ==
  /\ pc = "m_load"
  /\ file \in files
  /\ coupons = <<>>
  /\ cookies = EmptyDict
  /\ browsers = 0
  /\ passes = 0
  /\ repeat = <<>>
  /\ capturePass = 0
  /\ zap_session = "UnknownSession"
  /\ idx = 0
  /\ attempt = 0
  /\ success = FALSE
  /\ outcomes = <<>>
  /\ jar = EmptyDict
  /\ sent = NoRequest
  /\ retrySleeps = 0
  /\ interSleeps = 0
  /\ passPosts = <<>>
  /\ passFailed = <<>>
  /\ sinceLastPost = 0
  /\ lastGap = 0
  /\ lastPostPass = 0
  /\ prevPostPass = 0
  /\ log = <<>>
  /\ console = <<>>

Init == InitWith(Files)

\* time.sleep(RATE_LIMIT_SECONDS)
sleep(t) == t + RATE_LIMIT_SECONDS

\* the file object after the comprehension at line 28 has iterated it
exhausted(f) == [f EXCEPT !.lines = <<>>, !.read = @ + Len(f.lines)]

\* the early return of lines 137-139 missing
main_load_noexit ==
  /\ pc = "m_load"
  /\ coupons' = load_coupons(file)
  /\ file' = exhausted(file)
  /\ log' = log \o << Rec("", IF file.exists THEN "Loaded" ELSE "NotFound",
                          NoCoupon) >>
  /\ console' = console
  /\ pc' = "m_browser"
  /\ UNCHANGED << cookies, repeat, capturePass, browsers, passes >>
  /\ UNCHANGED << accountLocals, callLocals, gapVars >>

\* main, lines 136-139
main_load ==
  /\ pc = "m_load"
  /\ coupons' = load_coupons(file)
  /\ file' = exhausted(file)
  /\ log' = log \o << Rec("", IF file.exists THEN "Loaded" ELSE "NotFound",
                          NoCoupon) >>
  /\ IF ~truthy(coupons')
       THEN /\ console' = console \o << Rec("", "NoCoupons", NoCoupon) >>
            /\ pc' = "returned"
       ELSE /\ console' = console
            /\ pc' = "m_browser"
  /\ UNCHANGED << cookies, repeat, capturePass, browsers, passes >>
  /\ UNCHANGED << accountLocals, callLocals, gapVars >>

\* start_browser_and_login, called at line 144
start_browser_and_login ==
  /\ pc = "m_browser"
  /\ passes' = passes + 1
  /\ \E launch \in Launches :
       CASE launch = "chrome_raises" ->
              /\ pc' = "crashed"
              /\ UNCHANGED << browsers, console >>
         [] launch = "get_raises" ->
              /\ pc' = "crashed"
              /\ browsers' = browsers + 1
              /\ UNCHANGED console
         [] OTHER ->
              /\ pc' = "m_cookies"
              /\ browsers' = browsers + 1
              /\ console' = << Rec("", "PleaseLogIn", NoCoupon) >>
  /\ log' = <<>>
  /\ UNCHANGED << file, mainLocals, accountLocals, callLocals, gapVars >>

\* cookies = get_cookies_from_driver(driver), line 145
main_get_cookies ==
  /\ pc = "m_cookies"
  /\ \E got \in Captures :
       /\ cookies' = get_cookies_from_driver(got)
       /\ console' = IF got.raised
                       THEN console \o << Rec("", "WindowClosed", NoCoupon) >>
                       ELSE console
  /\ capturePass' = passes
  /\ pc' = "m_check"
  /\ UNCHANGED << file, coupons, repeat, browsers, passes, log >>
  /\ UNCHANGED << accountLocals, callLocals, gapVars >>

\* the break at line 149 missing: the pass goes on without cookies
main_check_cookies_nobreak ==
  /\ pc = "m_check"
  /\ IF ~truthy(cookies)
       THEN /\ console' = console \o << Rec("", "NoCookies", NoCoupon) >>
            /\ browsers' = browsers - 1
       ELSE UNCHANGED << console, browsers >>
  /\ pc' = "pa_start"
  /\ UNCHANGED << file, mainLocals, passes, log >>
  /\ UNCHANGED << accountLocals, callLocals, gapVars >>

\* continue in place of the break at line 149: the next account is tried
main_check_cookies_continue ==
  /\ pc = "m_check"
  /\ IF ~truthy(cookies)
       THEN /\ console' = console \o << Rec("", "NoCookies", NoCoupon) >>
            /\ browsers' = browsers - 1
            /\ pc' = IF passes < MaxPasses THEN "m_browser" ELSE "m_end"
       ELSE /\ pc' = "pa_start"
            /\ UNCHANGED << console, browsers >>
  /\ UNCHANGED << file, mainLocals, passes, log >>
  /\ UNCHANGED << accountLocals, callLocals, gapVars >>

\* main, lines 146-149
main_check_cookies ==
  /\ pc = "m_check"
  /\ IF ~truthy(cookies)
       THEN /\ console' = console \o << Rec("", "NoCookies", NoCoupon) >>
            /\ browsers' = browsers - 1
            /\ pc' = "m_end"
       ELSE /\ pc' = "pa_start"
            /\ UNCHANGED << console, browsers >>
  /\ UNCHANGED << file, mainLocals, passes, log >>
  /\ UNCHANGED << accountLocals, callLocals, gapVars >>

\* process_account, lines 119-122
process_account_start ==
  /\ pc = "pa_start"
  /\ zap_session' = get_zap_session(cookies)
  /\ log' = << Rec(zap_session', "Starting", NoCoupon) >>
  /\ console' = << Rec(zap_session', "Starting", NoCoupon) >>
  /\ idx' = 1
  /\ interSleeps' = 0
  /\ passPosts' = [i \in 1..Len(coupons) |-> 0]
  /\ passFailed' = [i \in 1..Len(coupons) |-> 0]
  /\ pc' = "pa_loop"
  /\ UNCHANGED << file, mainLocals, browsers, passes, callLocals, gapVars >>

\* for idx, coupon in enumerate(coupons, start=1), line 124
has_next(i, n) == i <= n

\* process_account, lines 124-126: loop test and call of activate_coupon
\* (lines 69-74)
process_account_loop ==
  /\ pc = "pa_loop"
  /\ IF has_next(idx, Len(coupons))
       THEN /\ console' = << Rec(zap_session, "Activating", coupons[idx]) >>
            /\ log' = <<>>
            /\ attempt' = 0
            /\ success' = FALSE
            /\ outcomes' = <<>>
            /\ jar' = EmptyDict
            /\ sent' = NoRequest
            /\ retrySleeps' = 0
            /\ pc' = "ac_loop"
       ELSE /\ pc' = "pa_done"
            /\ UNCHANGED << callLocals, outputs >>
  /\ UNCHANGED << file, mainLocals, browsers, passes, accountLocals, gapVars >>

\* the success flag tested the wrong way round
loop_continues_inverted(a, ok) == a < MaxAttempts /\ ok

\* the loop bound tested one attempt too late
loop_continues_late(a, ok) == a <= MaxAttempts /\ ~ok

\* while attempt < 3 and not success, line 76
loop_continues(a, ok) == a < MaxAttempts /\ ~ok

\* activate_coupon, lines 76-77
activate_coupon_loop ==
  /\ pc = "ac_loop"
  /\ IF loop_continues(attempt, success)
       THEN /\ attempt' = attempt + 1
            /\ pc' = "ac_post"
       ELSE /\ pc' = "ac_tail"
            /\ UNCHANGED attempt
  /\ UNCHANGED << success, outcomes, jar, sent, retrySleeps >>
  /\ UNCHANGED << file, mainLocals, browsers, passes, accountLocals, gapVars,
                  outputs >>

\* the branch of lines 93-107 taken for what session.post produced
postEvent(r) ==
  IF r.raised THEN "EXCEPTION"
  ELSE IF r.status = HTTP_OK
    THEN IF r.marker THEN "SUCCESS" ELSE "INFO"
    ELSE "ERROR"

\* only the success marker counted as success
postSucceeds_marker(r) == ~r.raised /\ r.status = HTTP_OK /\ r.marker

\* success = True at lines 97 and 101
postSucceeds(r) == ~r.raised /\ r.status = HTTP_OK

\* one session object kept across the attempts of a call
reused_session(j) == j

\* session = requests.Session(), line 78: a new, empty cookie jar
new_session(j) == EmptyDict

\* activate_coupon, lines 78-107: one POST and the handling of its outcome
activate_coupon_post ==
  /\ pc = "ac_post"
  /\ sent' = [code |-> coupons[idx],
              cookies |-> update(new_session(jar), cookies)]
  /\ \E r \in PostOutcomes :
       /\ outcomes' = Append(outcomes, r)
       /\ jar' = update(sent'.cookies, response_cookies(r))
       /\ log' = Append(log, Rec(zap_session, postEvent(r), coupons[idx]))
       /\ console' = Append(console,
                             Rec(zap_session, postEvent(r), coupons[idx]))
       /\ success' = IF postSucceeds(r) THEN TRUE ELSE success
  /\ passPosts' = [passPosts EXCEPT ![idx] = @ + 1]
  /\ UNCHANGED passFailed
  /\ lastGap' = sinceLastPost
  /\ prevPostPass' = lastPostPass
  /\ lastPostPass' = passes
  /\ sinceLastPost' = 0
  /\ pc' = "ac_check"
  /\ UNCHANGED << file, mainLocals, browsers, passes, zap_session, idx,
                  interSleeps, attempt, retrySleeps >>

\* the delay taken after every attempt, successful or not
retry_sleeps_always(ok) == TRUE

\* if not success, line 109
retry_sleeps(ok) == ~ok

\* activate_coupon, lines 109-111
activate_coupon_retry ==
  /\ pc = "ac_check"
  /\ IF retry_sleeps(success)
       THEN /\ console' = Append(console,
                                  Rec(zap_session, "Retrying", coupons[idx]))
            /\ retrySleeps' = retrySleeps + 1
            /\ sinceLastPost' = sleep(sinceLastPost)
       ELSE UNCHANGED << console, retrySleeps, sinceLastPost >>
  /\ pc' = "ac_loop"
  /\ UNCHANGED << attempt, success, outcomes, jar, sent, log, lastGap,
                  lastPostPass, prevPostPass >>
  /\ UNCHANGED << file, mainLocals, browsers, passes, accountLocals >>

\* an abandoned coupon ending the loop over the coupons
activate_coupon_tail_break ==
  /\ pc = "ac_tail"
  /\ IF ~success
       THEN /\ log' = Append(log, Rec(zap_session, "FAILED", coupons[idx]))
            /\ console' = Append(console,
                                  Rec(zap_session, "FAILED", coupons[idx]))
            /\ passFailed' = [passFailed EXCEPT ![idx] = @ + 1]
            /\ pc' = "pa_done"
       ELSE /\ UNCHANGED << outputs, passFailed >>
            /\ pc' = "pa_after"
  /\ UNCHANGED << file, mainLocals, browsers, passes, zap_session, idx,
                  interSleeps, passPosts, callLocals, gapVars >>

\* the FAILED record written whenever the third attempt was used, whatever
\* its outcome
activate_coupon_tail_on_third ==
  /\ pc = "ac_tail"
  /\ IF attempt = MaxAttempts
       THEN /\ log' = Append(log, Rec(zap_session, "FAILED", coupons[idx]))
            /\ console' = Append(console,
                                  Rec(zap_session, "FAILED", coupons[idx]))
            /\ passFailed' = [passFailed EXCEPT ![idx] = @ + 1]
       ELSE UNCHANGED << outputs, passFailed >>
  /\ pc' = "pa_after"
  /\ UNCHANGED << file, mainLocals, browsers, passes, zap_session, idx,
                  interSleeps, passPosts, callLocals, gapVars >>

\* activate_coupon, lines 113-115, and return
activate_coupon_tail ==
  /\ pc = "ac_tail"
  /\ IF ~success
       THEN /\ log' = Append(log, Rec(zap_session, "FAILED", coupons[idx]))
            /\ console' = Append(console,
                                  Rec(zap_session, "FAILED", coupons[idx]))
            /\ passFailed' = [passFailed EXCEPT ![idx] = @ + 1]
       ELSE UNCHANGED << outputs, passFailed >>
  /\ pc' = "pa_after"
  /\ UNCHANGED << file, mainLocals, browsers, passes, zap_session, idx,
                  interSleeps, passPosts, callLocals, gapVars >>

\* the inter-coupon delay taken after the last coupon too
wait_needed_always(i, n) == i <= n

\* the inter-coupon delay dropped one coupon too early
wait_needed_early(i, n) == i < n - 1

\* if idx < len(coupons), line 127
wait_needed(i, n) == i < n

\* one coupon skipped at every step of the loop
next_index_skip(i) == i + 2

\* enumerate(coupons, start=1), line 124: the index of the next coupon
next_index(i) == i + 1

\* process_account, lines 127-129, and the loop's step to the next coupon;
\* the locals of the activate_coupon call that has returned are gone
process_account_wait ==
  /\ pc = "pa_after"
  /\ IF wait_needed(idx, Len(coupons))
       THEN /\ console' = << Rec(zap_session, "Waiting", NoCoupon) >>
            /\ interSleeps' = interSleeps + 1
            /\ sinceLastPost' = sleep(sinceLastPost)
       ELSE /\ console' = <<>>
            /\ UNCHANGED << interSleeps, sinceLastPost >>
  /\ log' = <<>>
  /\ attempt' = 0
  /\ success' = FALSE
  /\ outcomes' = <<>>
  /\ jar' = EmptyDict
  /\ sent' = NoRequest
  /\ retrySleeps' = 0
  /\ idx' = next_index(idx)
  /\ pc' = "pa_loop"
  /\ UNCHANGED << zap_session, passPosts, passFailed, lastGap,
                  lastPostPass, prevPostPass >>
  /\ UNCHANGED << file, mainLocals, browsers, passes >>

\* the pass started over in place of returning to main
process_account_done_restart ==
  /\ pc = "pa_done"
  /\ log' = Append(log, Rec(zap_session, "Completed", NoCoupon))
  /\ console' = Append(console, Rec(zap_session, "Completed", NoCoupon))
  /\ pc' = "pa_start"
  /\ UNCHANGED << file, mainLocals, browsers, passes, accountLocals,
                  callLocals, gapVars >>

\* the completion message printed but not logged
process_account_done_unlogged ==
  /\ pc = "pa_done"
  /\ console' = Append(console, Rec(zap_session, "Completed", NoCoupon))
  /\ pc' = "m_quit"
  /\ UNCHANGED << file, mainLocals, browsers, passes, accountLocals,
                  callLocals, gapVars, log >>

\* the coupons abandoned in a pass taken off the list for the next one
process_account_done_pruning ==
  /\ pc = "pa_done"
  /\ log' = Append(log, Rec(zap_session, "Completed", NoCoupon))
  /\ console' = Append(console, Rec(zap_session, "Completed", NoCoupon))
  /\ coupons' = SelectSeq(coupons, LAMBDA c :
                   \E i \in DOMAIN coupons : coupons[i] = c /\ passFailed[i] = 0)
  /\ pc' = "m_quit"
  /\ UNCHANGED << file, cookies, repeat, capturePass, browsers, passes,
                  accountLocals, callLocals, gapVars >>

\* process_account, lines 131-132, and return
process_account_done ==
  /\ pc = "pa_done"
  /\ log' = Append(log, Rec(zap_session, "Completed", NoCoupon))
  /\ console' = Append(console, Rec(zap_session, "Completed", NoCoupon))
  /\ pc' = "m_quit"
  /\ UNCHANGED << file, mainLocals, browsers, passes, accountLocals,
                  callLocals, gapVars >>

\* driver.quit() at line 155 forgotten
main_quit_missing ==
  /\ pc = "m_quit"
  /\ pc' = "m_ask"
  /\ UNCHANGED << file, mainLocals, browsers, passes, accountLocals,
                  callLocals, gapVars, outputs >>

\* main, line 155
main_quit ==
  /\ pc = "m_quit"
  /\ browsers' = browsers - 1
  /\ pc' = "m_ask"
  /\ UNCHANGED << file, mainLocals, passes, accountLocals, callLocals,
                  gapVars, outputs >>

\* the loop left only on an explicit n
stops_on_n(answer) == answer = <<"n">>

\* if repeat != 'y', line 159
stops(answer) == answer # <<"y">>

\* main, lines 158-160; the console line holds the prompt and the typed
\* answer
main_ask ==
  /\ pc = "m_ask"
  /\ \E answer \in Answers :
       /\ repeat' = lower(strip(answer))
       /\ ~stops(repeat') => passes < MaxPasses
       /\ console' = Append(console, Rec("", "AnotherAccount", answer))
  /\ pc' = IF stops(repeat') THEN "m_end" ELSE "m_browser"
  /\ UNCHANGED << file, coupons, cookies, capturePass, browsers, passes,
                  log >>
  /\ UNCHANGED << accountLocals, callLocals, gapVars >>

\* main, lines 162-163
main_end ==
  /\ pc = "m_end"
  /\ console' = Append(console, Rec("", "AllProcessed", NoCoupon))
  /\ log' = Append(log, Rec("", "AllProcessed", NoCoupon))
  /\ pc' = "exited"
  /\ UNCHANGED << file, mainLocals, browsers, passes, accountLocals,
                  callLocals, gapVars >>

Next ==
  \/ main_load
  \/ start_browser_and_login
  \/ main_get_cookies
  \/ main_check_cookies
  \/ process_account_start
  \/ process_account_loop
  \/ activate_coupon_loop
  \/ activate_coupon_post
  \/ activate_coupon_retry
  \/ activate_coupon_tail
  \/ process_account_wait
  \/ process_account_done
  \/ main_quit
  \/ main_ask
  \/ main_end

Spec == Init /\ [][Next]_vars

\* load_coupons on its own, over the wider choice of files
LoadInit == InitWith(LoadFiles)

LoadNext == main_load

LoadSpec == LoadInit /\ [][LoadNext]_vars

\* the steps of one account pass: each is a bounded computation, a sleep of
\* RATE_LIMIT_SECONDS or a POST with timeout=30, so the pass keeps moving
PassStep ==
  \/ process_account_start
  \/ process_account_loop
  \/ activate_coupon_loop
  \/ activate_coupon_post
  \/ activate_coupon_retry
  \/ activate_coupon_tail
  \/ process_account_wait
  \/ process_account_done

FairSpec == Spec /\ WF_vars(PassStep)

\* every step of the program is eventually taken: besides the pass's own
\* steps, the user presses Enter and answers the prompt (input, lines 51
\* and 158) and the browser calls return
LiveSpec == Spec /\ WF_vars(Next)

TypeOK ==
  /\ pc \in {"m_load", "m_browser", "m_cookies", "m_check", "pa_start",
             "pa_loop", "ac_loop", "ac_post", "ac_check", "ac_tail",
             "pa_after", "pa_done", "m_quit", "m_ask", "m_end", "exited",
             "returned", "crashed"}
  /\ file.exists \in BOOLEAN
  /\ file.read \in 0..MaxLines
  /\ browsers \in 0..MaxPasses
  /\ passes \in 0..MaxPasses
  /\ attempt \in 0..MaxAttempts
  /\ success \in BOOLEAN
  /\ Len(outcomes) <= MaxAttempts

\* ------------------------------------------------------------ properties
InCall == pc \in {"ac_loop", "ac_post", "ac_check", "ac_tail"}

CallReturned == pc = "pa_after"

AttemptFailed(r) == r.raised \/ r.status # 200

Activated(r) == ~r.raised /\ r.status = 200 /\ r.marker

ManualCheck(r) == ~r.raised /\ r.status = 200 /\ ~r.marker

AllAttemptsFailed == \A i \in DOMAIN outcomes : AttemptFailed(outcomes[i])

Events(records) == {records[i].event : i \in DOMAIN records}

TwoPosts == prevPostPass # 0

\* C1 (as stated): between any two consecutive POST requests of the run,
\* also across two account passes, at least RATE_LIMIT_SECONDS were slept.
C1_EveryGapSlept == TwoPosts => lastGap >= 30

\* C1 (amended): between any two consecutive POST requests of the same
\* account pass (a retry of the same coupon, or the next coupon) at least
\* one sleep of RATE_LIMIT_SECONDS was executed.
C1_SamePassGapSlept ==
  (TwoPosts /\ prevPostPass = lastPostPass) => lastGap >= 30

\* the second coupon of a pass is being retried: both kinds of gap happened
C1_Witness ==
  /\ pc = "ac_check"
  /\ idx = 2
  /\ attempt = 2
  /\ prevPostPass = lastPostPass
  /\ lastGap = 30

\* C2: when every attempt for a coupon ends in a non-200 status or a
\* transport failure, activate_coupon sends exactly 3 POST requests, then
\* logs and prints the FAILED record for that coupon and returns.
C2_ThreeAttemptsThenFailed ==
  /\ (InCall /\ AllAttemptsFailed) => Len(outcomes) <= 3
  /\ (CallReturned /\ AllAttemptsFailed) =>
       /\ Len(outcomes) = 3
       /\ passPosts[idx] = 3
       /\ log[Len(log)] = Rec(zap_session, "FAILED", coupons[idx])
       /\ console[Len(console)] = Rec(zap_session, "FAILED", coupons[idx])
       /\ passFailed[idx] = 1

C2_Witness ==
  /\ CallReturned
  /\ AllAttemptsFailed
  /\ Len(outcomes) = 3
  /\ outcomes[1].raised
  /\ ~outcomes[2].raised
  /\ "FAILED" \in Events(log)

\* C3: a failed attempt is followed by the retry delay only if attempts
\* remain, so a coupon whose 3 attempts all fail incurs exactly 2 retry
\* sleeps and none after the third attempt.
C3_SleepOnlyBetweenAttempts ==
  /\ (CallReturned /\ AllAttemptsFailed) => retrySleeps = 2
  /\ (pc = "ac_tail" /\ AllAttemptsFailed) => sinceLastPost = 0

\* C4: when the first attempt returns HTTP 200 with the success marker,
\* activate_coupon finishes with exactly 1 POST request and no sleep.
C4_FirstSuccessOnePostNoSleep ==
  ((InCall \/ CallReturned) /\ Len(outcomes) >= 1 /\ Activated(outcomes[1]))
    => /\ Len(outcomes) = 1
       /\ attempt = 1
       /\ passPosts[idx] = 1
       /\ retrySleeps = 0
       /\ sinceLastPost = 0

C4_Witness ==
  /\ CallReturned
  /\ Len(outcomes) = 1
  /\ Activated(outcomes[1])
  /\ Events(log) = {"SUCCESS"}

\* C5: an HTTP 200 response without the success marker ends the call: no
\* further request for that coupon, no retry sleep after it, and no FAILED
\* record.
C5_ManualCheckIsTerminal ==
  \A i \in DOMAIN outcomes :
    ((InCall \/ CallReturned) /\ ManualCheck(outcomes[i])) =>
      /\ i = Len(outcomes)
      /\ attempt = i
      /\ retrySleeps = i - 1
      /\ sinceLastPost = 0
      /\ "FAILED" \notin Events(log) \cup Events(console)
      /\ passFailed[idx] = 0

C5_Witness ==
  /\ CallReturned
  /\ Len(outcomes) = 2
  /\ AttemptFailed(outcomes[1])
  /\ ManualCheck(outcomes[2])
  /\ retrySleeps = 1

InPass ==
  pc \in {"pa_start", "pa_loop", "ac_loop", "ac_post", "ac_check", "ac_tail",
          "pa_after", "pa_done"}

PassCompleted == pc = "m_quit"

\* C6: abandoning a coupon does not stop the account pass: whatever the
\* attempts' outcomes, a pass that starts activating reaches its completion
\* record, and by then every loaded coupon got at least one POST request.
C6_PassCoversEveryCoupon ==
  /\ [](PassCompleted =>
         /\ \A i \in 1..Len(coupons) : passPosts[i] >= 1
         /\ log[Len(log)] = Rec(zap_session, "Completed", NoCoupon))
  /\ (pc = "pa_start" ~> PassCompleted)

\* the first coupon was abandoned, the second one was still attempted
C6_Witness ==
  /\ PassCompleted
  /\ Len(coupons) >= 2
  /\ passFailed[1] = 1
  /\ passPosts[2] >= 1

\* C7: when cookie capture yields an empty mapping, no activation POST is
\* sent from that login to the end of the run: the program only checks the
\* mapping, prints the final message and exits.
C7_NoPostWithoutCookies ==
  (passes >= 1 /\ DOMAIN cookies = {} /\ pc \notin {"m_cookies", "crashed"})
    => /\ pc \in {"m_check", "m_end", "exited"}
       /\ lastPostPass # passes

C7_Witness ==
  /\ pc = "exited"
  /\ DOMAIN cookies = {}
  /\ passes = 1
  /\ lastPostPass = 0
  /\ "NoCookies" \in Events(console)

\* C8: when cookie capture yields nothing, the browser of that account is
\* closed and the run ends: no y/n prompt, no further browser, also after
\* earlier accounts were processed.
C8_CaptureFailureExits ==
  [][ /\ (pc = "m_check" /\ DOMAIN cookies = {}) =>
           /\ pc' = "m_end"
           /\ browsers' = browsers - 1
           /\ browsers' = 0
           /\ passes' = passes
           /\ "AnotherAccount" \notin Events(console')
      /\ pc = "m_end" =>
           /\ pc' = "exited"
           /\ browsers' = browsers
           /\ passes' = passes
           /\ "AnotherAccount" \in Events(console') <=>
                "AnotherAccount" \in Events(console)
      /\ pc = "exited" => UNCHANGED vars ]_vars

C8_Witness ==
  /\ pc = "exited"
  /\ DOMAIN cookies = {}
  /\ passes = 2
  /\ lastPostPass = 1
  /\ browsers = 0
  /\ "AnotherAccount" \notin Events(console)

\* C9: a pass over N >= 1 coupons takes exactly N-1 inter-coupon delays,
\* one between coupon i and coupon i+1 and none after the last.
C9_InterCouponDelays ==
  /\ (InPass /\ pc \notin {"pa_start", "pa_done"}) =>
       interSleeps = (IF idx <= Len(coupons) THEN idx ELSE Len(coupons)) - 1
  /\ (pc = "pa_done" \/ PassCompleted) => interSleeps = Len(coupons) - 1

C9_Witness ==
  /\ PassCompleted
  /\ Len(coupons) = 3
  /\ interSleeps = 2

\* C10: the browser is opened at the start of an account pass and closed at
\* its end whatever the activation outcomes: never more than one browser,
\* one exactly while a pass runs, none between passes and none once the run
\* has ended normally or after a failed cookie capture.
C10_BrowserPerAccount ==
  /\ browsers \in {0, 1}
  /\ (InPass \/ pc \in {"m_cookies", "m_check", "m_quit"}) => browsers = 1
  /\ pc \in {"m_load", "m_browser", "m_ask", "m_end", "exited", "returned"}
       => browsers = 0

\* the run ended after a pass that abandoned a coupon
C10_Witness ==
  /\ pc = "exited"
  /\ browsers = 0
  /\ \E i \in DOMAIN passFailed : passFailed[i] = 1

\* ----------------------------------------------------------- load_coupons
IsSpace(c) == c = " " \/ c = "\t" \/ c = "\n"

NonBlankAt(ls) == {i \in DOMAIN ls : \E j \in DOMAIN ls[i] : ~IsSpace(ls[i][j])}

\* the line from its first to its last non-whitespace character
Trimmed(l) ==
  LET nw == {j \in DOMAIN l : ~IsSpace(l[j])}
      lo == CHOOSE j \in nw : \A k \in nw : j <= k
      hi == CHOOSE j \in nw : \A k \in nw : k <= j
  IN  [k \in 1..(hi - lo + 1) |-> l[lo + k - 1]]

\* the k-th smallest element of a set of indices
Kth(S, k) == CHOOSE i \in S : Cardinality({j \in S : j <= i}) = k

\* C11: on a file with N non-blank and M blank lines load_coupons returns
\* exactly N entries: the non-blank lines, stripped of surrounding
\* whitespace, in file order.
C11_LoadKeepsNonBlankLines ==
  [][ (pc = "m_load" /\ file.exists) =>
        /\ Len(coupons') = Cardinality(NonBlankAt(file.lines))
        /\ \A k \in 1..Len(coupons') :
             coupons'[k] = Trimmed(file.lines[Kth(NonBlankAt(file.lines), k)])
        /\ file'.read = Len(file.lines) ]_vars

\* three lines were read, one of them blank: two entries, in file order
C11_Witness ==
  /\ pc = "m_browser"
  /\ file.read = 3
  /\ coupons = << <<"A", " ", "B">>, <<"B">> >>

\* C12: a missing coupon file loads as the empty sequence without raising,
\* and with an empty sequence (missing file or blank lines only) main
\* returns at once: no browser, no login prompt, no activation request.
C12_EmptyListExitsEarly ==
  /\ [][ pc = "m_load" =>
           /\ ~file.exists => coupons' = <<>>
           /\ NonBlankAt(file.lines) = {} => coupons' = <<>>
           /\ coupons' = <<>> => pc' = "returned"
           /\ pc' # "crashed" ]_vars
  /\ [](pc = "returned" =>
          /\ coupons = <<>>
          /\ browsers = 0
          /\ passes = 0
          /\ lastPostPass = 0
          /\ Events(console) = {"NoCoupons"}
          /\ ~ENABLED Next)
  /\ []((passes >= 1 \/ browsers >= 1 \/ lastPostPass >= 1) => coupons # <<>>)

C12_Witness ==
  /\ pc = "returned"
  /\ ~file.exists
  /\ Events(log) = {"NotFound"}
  /\ coupons = <<>>

\* ------------------------------------------------------- log and console
ResultEvents ==
  {"Starting", "SUCCESS", "INFO", "ERROR", "EXCEPTION", "FAILED", "Completed"}

IsResult(r) == r.event \in ResultEvents

IsKeyEvent(r) == r.event \in ResultEvents \cup {"Retrying"}

\* C13 (as stated): during an account pass every start, success, failure,
\* retry and completion line printed to the console has its line in the
\* log, so the key events of the console are the records of the log.
C13_LogMirrorsKeyEvents ==
  (InPass \/ PassCompleted) => SelectSeq(console, IsKeyEvent) = log

\* C13 (amended): during an account pass every start, success, failure and
\* completion line printed to the console has its line in the log, in the
\* same order; the retry announcement is printed only.
C13_LogMirrorsResults ==
  (InPass \/ PassCompleted) => SelectSeq(console, IsResult) = log

\* a coupon was abandoned: failures and the FAILED record are in the log,
\* the retry announcements are on the console only
C13_Witness ==
  /\ CallReturned
  /\ "Retrying" \in Events(console)
  /\ "Retrying" \notin Events(log)
  /\ {"ERROR", "EXCEPTION", "FAILED"} \subseteq Events(log)

\* -------------------------------------------------------- the outer loop
\* the typed answer reads y once surrounding whitespace and letter case are
\* ignored
Affirmative(typed) == typed \in { <<"y">>, <<"Y">>, <<" ", "y", "\n">> }

Prompts(out) == Len(SelectSeq(out, LAMBDA r : r.event = "AnotherAccount"))

\* C14: after each account pass that completes its activations the user is
\* asked once whether to go on; on y the loop restarts from login with a
\* newly opened browser and a new cookie capture, on any other answer the
\* run ends with no further login or activation request.
C14_AskOncePerPass ==
  /\ [][ pc = "m_quit" => (pc' = "m_ask" /\ Prompts(console') = 0) ]_vars
  /\ [][ pc = "m_ask" =>
           LET line == console'[Len(console')] IN
             /\ Prompts(console') = 1
             /\ line.event = "AnotherAccount"
             /\ pc' = IF Affirmative(line.coupon) THEN "m_browser" ELSE "m_end"
             /\ browsers' = 0
             /\ passes' = passes
             /\ UNCHANGED gapVars ]_vars
  /\ [][ pc = "m_browser" =>
           /\ pc' \in {"m_cookies", "crashed"}
           /\ passes' = passes + 1
           /\ pc' = "m_cookies" => browsers' = browsers + 1
           /\ UNCHANGED gapVars ]_vars
  /\ [][ pc = "m_cookies" => (pc' = "m_check" /\ capturePass' = passes) ]_vars
  /\ [][ pc = "m_end" =>
           (pc' = "exited" /\ UNCHANGED << passes, browsers, gapVars >>) ]_vars
  /\ [](pc = "exited" => ~ENABLED Next)
  /\ [](InPass => (capturePass = passes /\ browsers = 1))

\* the second account's pass starts after a y answer
C14_Witness ==
  /\ pc = "pa_start"
  /\ repeat = <<"y">>
  /\ passes = 2
  /\ capturePass = 2
  /\ browsers = 1
  /\ lastPostPass = 1

\* ------------------------------------------------------------ sequencing
Activating == InPass /\ pc # "pa_start"

\* C15: an account pass runs login, cookie capture, the coupons 1..N and
\* completion strictly in sequence: no request before the pass's cookies
\* are captured, coupons taken in list order, every attempt for coupon i
\* before the first for coupon i+1, and no coupon revisited.
C15_PassIsSequential ==
  /\ [][ pc = "m_check" => pc' \in {"pa_start", "m_end"} ]_vars
  /\ [][ pc = "pa_start" => (pc' = "pa_loop" /\ idx' = 1) ]_vars
  /\ [][ pc = "ac_post" =>
           /\ capturePass = passes
           /\ sent'.code = coupons[idx]
           /\ passPosts' = [passPosts EXCEPT ![idx] = passPosts[idx] + 1] ]_vars
  /\ [][ pc # "ac_post" /\ Activating => passPosts' = passPosts ]_vars
  /\ [][ Activating =>
           idx' = IF pc = "pa_after" THEN idx + 1 ELSE idx ]_vars
  /\ [](Activating =>
          /\ idx \in 1..(Len(coupons) + 1)
          /\ \A i \in 1..Len(coupons) :
               /\ i < idx => passPosts[i] >= 1
               /\ i > idx => passPosts[i] = 0)
  /\ [](pc = "pa_done" => idx = Len(coupons) + 1)

\* the second of three different coupons is being attempted: the first is
\* finished, the third untouched
C15_Witness ==
  /\ pc = "ac_check"
  /\ Len(coupons) = 3
  /\ coupons[1] # coupons[2]
  /\ idx = 2
  /\ sent.code = coupons[2]
  /\ passPosts = <<3, 1, 0>>

RECURSIVE SumOf(_)
SumOf(q) == IF q = <<>> THEN 0 ELSE Head(q) + SumOf(Tail(q))

\* C16: whatever the endpoint answers, the attempt number never exceeds 3
\* and every coupon gets between 1 and 3 POST requests per pass, so a pass
\* over N coupons sends between N and 3N requests.
C16_AttemptBounds ==
  /\ attempt \in 0..3
  /\ Len(outcomes) <= 3
  /\ Activating => \A i \in 1..Len(coupons) : passPosts[i] <= 3
  /\ CallReturned =>
       /\ passPosts[idx] \in 1..3
       /\ passPosts[idx] = attempt
       /\ passPosts[idx] = Len(outcomes)
  /\ (pc = "pa_done" \/ PassCompleted) =>
       /\ \A i \in 1..Len(coupons) : passPosts[i] \in 1..3
       /\ SumOf(passPosts) >= Len(coupons)
       /\ SumOf(passPosts) <= 3 * Len(coupons)

\* a pass over three coupons that took 1, 3 and 2 requests
C16_Witness ==
  /\ PassCompleted
  /\ Len(coupons) = 3
  /\ passPosts = <<1, 3, 2>>
  /\ SumOf(passPosts) = 6

\* --------------------------------------------------------------- cookies
\* C17: the mapping captured at login stays as it is for the whole account
\* pass: every attempt of every coupon, retries included, is sent with
\* exactly the cookies captured at this pass's login, and no response
\* changes the mapping.
C17_CookiesFixedForPass ==
  /\ [][ InPass => (cookies' = cookies /\ capturePass' = capturePass) ]_vars
  /\ [][ pc = "ac_post" =>
           /\ capturePass = passes
           /\ sent'.cookies = cookies
           /\ cookies' = cookies ]_vars
  /\ []((InCall \/ CallReturned) /\ sent # NoRequest =>
          /\ sent.cookies = cookies
          /\ capturePass = passes
          /\ DOMAIN cookies # {})

\* a retry for the second coupon of the second account: the previous
\* response had set a cookie on its session, the request carries the
\* captured mapping only
C17_Witness ==
  /\ pc = "ac_check"
  /\ passes = 2
  /\ idx = 2
  /\ attempt = 2
  /\ ~outcomes[1].raised
  /\ ~outcomes[2].raised
  /\ jar # cookies
  /\ sent.cookies = cookies

\* ----------------------------------------------------------- termination
Terminated == pc \in {"exited", "returned", "crashed"}

\* the user has answered other than y, or a cookie capture yielded nothing
Leaving ==
  \/ pc = "m_end"
  \/ pc = "m_check" /\ DOMAIN cookies = {}

\* C18: with the external inputs arriving the run terminates whatever the
\* endpoint answers (so every activate_coupon call and every account pass
\* finishes), and once the user answers other than y, or a cookie capture
\* yields nothing, the program reaches its final state.
C18_RunTerminates ==
  /\ <>Terminated
  /\ Leaving ~> pc = "exited"
  /\ [](Terminated => ~ENABLED Next)
  /\ [](pc = "exited" => "AllProcessed" \in Events(log))

\* the final state, reached after a pass whose last coupon was abandoned
\* and an answer other than y
C18_Witness ==
  /\ pc = "exited"
  /\ repeat = <<"y", "e", "s">>
  /\ passes = 2
  /\ passFailed[Len(coupons)] = 1
  /\ "AllProcessed" \in Events(log)

\* the POST just made is the first one of its account pass
FirstPostOfPass == pc = "ac_check" /\ prevPostPass # lastPostPass

\* C19: the coupon list is read-only after load: no step after the load
\* changes it, every POST of every pass carries the list's coupon at the
\* loop's index, the first POST of every pass is for the first coupon of the
\* list whatever the earlier pass did with it, and every completed pass has
\* attempted every coupon of the list
C19_CouponsReadOnly ==
  /\ [][pc # "m_load" => coupons' = coupons]_vars
  /\ [](pc = "ac_check" => sent.code = coupons[idx])
  /\ [](FirstPostOfPass => idx = 1 /\ passPosts[1] = 1)
  /\ [](PassCompleted => \A i \in DOMAIN coupons : passPosts[i] >= 1)

\* the only coupon of the list, abandoned by the first pass (its last POST
\* failed and was followed by the 30 s delay), is sent again as the first
\* POST of the second pass
C19_Witness ==
  /\ FirstPostOfPass
  /\ passes = 2
  /\ prevPostPass = 1
  /\ Len(coupons) = 1
  /\ lastGap = RATE_LIMIT_SECONDS
  /\ sent.code = coupons[1]

\* ---------------------------------------------------------- FAILED record
\* some attempt of the current call received HTTP 200
Got200 == \E i \in DOMAIN outcomes : ~AttemptFailed(outcomes[i])

\* the FAILED records among the records written since the call began
FailedRecords(records) ==
  Len(SelectSeq(records, LAMBDA r : r.event = "FAILED"))

\* C20: the FAILED record of a coupon is written exactly when all three of
\* its attempts ended in a non-200 status or a transport error: while the
\* attempts are under way there is none, a call that has returned wrote one
\* (to the log and to the console) if and only if it made three attempts and
\* all of them failed, a call with an HTTP 200 among its attempts wrote none,
\* and no coupon has more than one in a pass.
C20_FailedIffAllThreeFailed ==
  /\ \A i \in DOMAIN passFailed : passFailed[i] \in {0, 1}
  /\ InCall => passFailed[idx] = 0 /\ FailedRecords(log) = 0
  /\ CallReturned =>
       /\ passFailed[idx] = 1 <=> (Len(outcomes) = 3 /\ AllAttemptsFailed)
       /\ FailedRecords(log) = passFailed[idx]
       /\ FailedRecords(console) = passFailed[idx]
       /\ Got200 => passFailed[idx] = 0

\* the first coupon of the pass was abandoned after three failures and the
\* second got its HTTP 200 on the third attempt: one record, for the first
C20_Witness ==
  /\ CallReturned
  /\ idx = 2
  /\ passFailed = <<1, 0>>
  /\ Len(outcomes) = 3
  /\ Got200
  /\ FailedRecords(log) = 0

====
